---- MODULE Spec2Model ----
(***************************************************************************)
(* A state-machine model of the front-end: the tab container              *)
(* (FinanceCockpit) with the screens it mounts (InstrumentProcessor,      *)
(* VehicleFinancingAnalysis, DebtCollectorLog, LegalResources) and the    *)
(* citation modal (EndorsementModal).  Every React state cell is a field  *)
(* of the record of its component; every handler, and every completion of *)
(* an asynchronous call, is one action.                                   *)
(***************************************************************************)
EXTENDS Bags, FiniteSets, Integers, Naturals, Sequences, TLC

VARIABLES
    activeTab,      \* FinanceCockpit: the tab whose screen is mounted
    instrument,     \* InstrumentProcessor: file, analysis, isLoading, error
    vehicle,        \* VehicleFinancingAnalysis: file, analysis, isLoading, error, remedyLetter, isGenerating
    debtLog,        \* DebtCollectorLog: logs, newLog, violationSuggestion, isSuggesting, ceaseAndDesist, isGenerating, error
    legal,          \* LegalResources: resources, searchTerm, newResource
    explanation,    \* EndorsementModal: the single explanation slot
    requests,       \* the asynchronous calls in flight (a bag: nothing in the code makes them distinct)
    now,            \* the value Date.now() returned when the mounted log last read it (0: not yet)
    lastClick,      \* history: the explain affordance clicked last, and what was displayed for it before
    modal,          \* EndorsementModal: the content prop and what renderContentWithLinks made of it
    freshDraft      \* history: a submission has emptied the draft and no suggestion was asked for since

vars ==
    <<activeTab, instrument, vehicle, debtLog, legal, explanation, requests, now, lastClick, modal,
      freshDraft>>

----------------------------------------------------------------------------
(* Bounds of the model *)

MaxLogs == 2
MaxNow == 1
MaxInflight == 2
MaxAdded == 1
MaxPieces == 2

----------------------------------------------------------------------------
(* Values *)

null == "null"

\* The files the picker can hand over; a file is known by its name.
Files == {"deed.pdf", "scan.jpg", "note.png", "empty.pdf", "notes.txt", "anim.gif"}

\* File.type, the MIME type the browser declares.
FileType(f) ==
    CASE f = "deed.pdf"  -> "application/pdf"
      [] f = "scan.jpg"  -> "image/jpeg"
      [] f = "note.png"  -> "image/png"
      [] f = "empty.pdf" -> "application/pdf"
      [] f = "notes.txt" -> "text/plain"
      [] f = "anim.gif"  -> "image/gif"

\* File.size = 0: readAsDataURL yields "data:<type>;base64," with nothing after the comma.
FileEmpty(f) == f = "empty.pdf"

\* response.text of a call that resolves: non-empty text.
AnalysisTexts == {"analysis-1", "analysis-2"}
LetterTexts == {"letter-1"}
SuggestionTexts == {"suggestion-1"}
ExplanationTexts == {"explanation-1", "explanation-2"}

\* A request in flight: the action slot, the phase of its chain of awaits, and
\* what the closure captured (a file name, a citation section, or nothing).
Request(slot, phase, arg) == [slot |-> slot, phase |-> phase, arg |-> arg]

InFlight(r) == CopiesIn(r, requests)
Issue(r) == requests (+) SetToBag({r})
Settle(r) == requests (-) SetToBag({r})
Pending == BagToSet(requests)
CountSlot(slot) ==
    LET rs == {r \in Pending : r.slot = slot}
        RECURSIVE Sum(_)
        Sum(S) == IF S = {} THEN 0
                  ELSE LET r == CHOOSE x \in S : TRUE IN InFlight(r) + Sum(S \ {r})
    IN Sum(rs)

----------------------------------------------------------------------------
(* Initial component states: what useState(...) gives on mount *)

InstrumentInit == [file |-> null, analysis |-> "", isLoading |-> FALSE, error |-> null]

VehicleInit ==
    [file |-> null, analysis |-> "", isLoading |-> FALSE, error |-> null,
     remedyLetter |-> "", isGenerating |-> FALSE]

EmptyNewLog == [date |-> "", collectorName |-> "", company |-> "", description |-> ""]

DebtLogInit ==
    [logs |-> <<>>, newLog |-> EmptyNewLog, violationSuggestion |-> "",
     isSuggesting |-> FALSE, ceaseAndDesist |-> "", isGenerating |-> FALSE, error |-> null]

----------------------------------------------------------------------------
(* InstrumentProcessor (src/components/Header.tsx) *)

Instrument_UnsupportedError == "Unsupported file type. Please upload a .jpg, .png, or .pdf file."
Instrument_AnalyzeError == "Failed to analyze the instrument. The file may be in an unsupported format or there was an issue with the AI service. Please try again."
Instrument_ReadError == "Failed to read the file. Please ensure it is a valid file."

Instrument_allowedTypes == {"image/jpeg", "image/png", "application/pdf"}

InstrumentMounted == activeTab = "Instrument Analysis"
InstrumentFrame ==
    UNCHANGED <<activeTab, vehicle, debtLog, legal, explanation, now, lastClick, modal, freshDraft>>

\* Mutant: the rejection forgets setAnalysis('').
Instrument_handleFileChange_KeepsAnalysis(sel) ==
    /\ InstrumentMounted
    /\ instrument' =
          IF sel = null THEN instrument
          ELSE IF FileType(sel) \notin Instrument_allowedTypes
               THEN [instrument EXCEPT !.error = Instrument_UnsupportedError, !.file = null]
               ELSE [instrument EXCEPT !.file = sel, !.analysis = "", !.error = null]
    /\ UNCHANGED requests
    /\ InstrumentFrame

\* onChange of the file input; sel = null is a change event that carries no file.
Instrument_handleFileChange(sel) ==
    /\ InstrumentMounted
    /\ instrument' =
          IF sel = null THEN instrument
          ELSE IF FileType(sel) \notin Instrument_allowedTypes
               THEN [instrument EXCEPT !.error = Instrument_UnsupportedError,
                                       !.file = null, !.analysis = ""]
               ELSE [instrument EXCEPT !.file = sel, !.analysis = "", !.error = null]
    /\ UNCHANGED requests
    /\ InstrumentFrame

\* A click on "Parse Instrument" (disabled={!file || isLoading}): up to reader.readAsDataURL(file).
Instrument_handleAnalyze ==
    /\ InstrumentMounted
    /\ instrument.file # null
    /\ ~instrument.isLoading
    /\ instrument' = [instrument EXCEPT !.isLoading = TRUE, !.error = null, !.analysis = ""]
    /\ requests' = Issue(Request("analyze", "read", instrument.file))
    /\ InstrumentFrame

\* reader.onload up to the await of generateContent: an empty file gives a data URL
\* with no base64 part, the throw is caught, and finally clears the flag.
Instrument_readerOnload(r) ==
    /\ InstrumentMounted
    /\ r \in Pending /\ r.slot = "analyze" /\ r.phase = "read"
    /\ IF FileEmpty(r.arg)
       THEN /\ instrument' = [instrument EXCEPT !.error = Instrument_AnalyzeError,
                                                !.isLoading = FALSE]
            /\ requests' = Settle(r)
       ELSE /\ instrument' = instrument
            /\ requests' = Settle(r) (+) SetToBag({Request("analyze", "call", r.arg)})
    /\ InstrumentFrame

\* Mutant: the onerror callback forgets setIsLoading(false).
Instrument_readerOnerror_KeepsLoading(r) ==
    /\ InstrumentMounted
    /\ r \in Pending /\ r.slot = "analyze" /\ r.phase = "read"
    /\ instrument' = [instrument EXCEPT !.error = Instrument_ReadError]
    /\ requests' = Settle(r)
    /\ InstrumentFrame

Instrument_readerOnerror(r) ==
    /\ InstrumentMounted
    /\ r \in Pending /\ r.slot = "analyze" /\ r.phase = "read"
    /\ instrument' = [instrument EXCEPT !.error = Instrument_ReadError, !.isLoading = FALSE]
    /\ requests' = Settle(r)
    /\ InstrumentFrame

\* generateContent resolves: setAnalysis(response.text), then finally.
Instrument_analyzeResolved(r, text) ==
    /\ InstrumentMounted
    /\ r \in Pending /\ r.slot = "analyze" /\ r.phase = "call"
    /\ instrument' = [instrument EXCEPT !.analysis = text, !.isLoading = FALSE]
    /\ requests' = Settle(r)
    /\ InstrumentFrame

\* generateContent rejects: catch, then finally.
Instrument_analyzeRejected(r) ==
    /\ InstrumentMounted
    /\ r \in Pending /\ r.slot = "analyze" /\ r.phase = "call"
    /\ instrument' = [instrument EXCEPT !.error = Instrument_AnalyzeError, !.isLoading = FALSE]
    /\ requests' = Settle(r)
    /\ InstrumentFrame

----------------------------------------------------------------------------
(* VehicleFinancingAnalysis (src/components/VehicleFinancingAnalysis.tsx) *)

Vehicle_UnsupportedError == "Unsupported file type. Please upload a PDF, JPG, or PNG file."
Vehicle_AnalyzeError == "Failed to analyze the contract. Please try again."
Vehicle_RemedyError == "Failed to generate the remedy letter. Please try again."

Vehicle_allowedTypes == {"application/pdf", "image/jpeg", "image/png"}

VehicleMounted == activeTab = "Vehicle Financing"
VehicleFrame ==
    UNCHANGED <<activeTab, instrument, debtLog, legal, explanation, now, lastClick, modal, freshDraft>>

Vehicle_handleFileChange(sel) ==
    /\ VehicleMounted
    /\ vehicle' =
          IF sel = null THEN vehicle
          ELSE IF FileType(sel) \notin Vehicle_allowedTypes
               THEN [vehicle EXCEPT !.error = Vehicle_UnsupportedError, !.file = null,
                                    !.analysis = "", !.remedyLetter = ""]
               ELSE [vehicle EXCEPT !.file = sel, !.analysis = "", !.remedyLetter = "",
                                    !.error = null]
    /\ UNCHANGED requests
    /\ VehicleFrame

\* A click on "Analyze Contract" (disabled={!file || isLoading}): up to the await
\* of fileToGenerativePart(file).
Vehicle_handleAnalyze ==
    /\ VehicleMounted
    /\ vehicle.file # null
    /\ ~vehicle.isLoading
    /\ vehicle' = [vehicle EXCEPT !.isLoading = TRUE, !.error = null, !.analysis = "",
                                  !.remedyLetter = ""]
    /\ requests' = Issue(Request("analyze", "read", vehicle.file))
    /\ VehicleFrame

\* fileToGenerativePart resolves (a non-empty file read), up to the await of generateContent.
Vehicle_fileToGenerativePartResolved(r) ==
    /\ VehicleMounted
    /\ r \in Pending /\ r.slot = "analyze" /\ r.phase = "read"
    /\ ~FileEmpty(r.arg)
    /\ requests' = Settle(r) (+) SetToBag({Request("analyze", "call", r.arg)})
    /\ UNCHANGED vehicle
    /\ VehicleFrame

\* fileToGenerativePart rejects (reader.onerror, or no base64 part): catch, then finally.
Vehicle_fileToGenerativePartRejected(r) ==
    /\ VehicleMounted
    /\ r \in Pending /\ r.slot = "analyze" /\ r.phase = "read"
    /\ vehicle' = [vehicle EXCEPT !.error = Vehicle_AnalyzeError, !.isLoading = FALSE]
    /\ requests' = Settle(r)
    /\ VehicleFrame

Vehicle_analyzeResolved(r, text) ==
    /\ VehicleMounted
    /\ r \in Pending /\ r.slot = "analyze" /\ r.phase = "call"
    /\ vehicle' = [vehicle EXCEPT !.analysis = text, !.isLoading = FALSE]
    /\ requests' = Settle(r)
    /\ VehicleFrame

Vehicle_analyzeRejected(r) ==
    /\ VehicleMounted
    /\ r \in Pending /\ r.slot = "analyze" /\ r.phase = "call"
    /\ vehicle' = [vehicle EXCEPT !.error = Vehicle_AnalyzeError, !.isLoading = FALSE]
    /\ requests' = Settle(r)
    /\ VehicleFrame

\* A click on "Generate Remedy Letter": the button is rendered inside {analysis && ...}
\* with disabled={isGenerating}.
Vehicle_handleGenerateRemedy ==
    /\ VehicleMounted
    /\ vehicle.analysis # ""
    /\ ~vehicle.isGenerating
    /\ vehicle' = [vehicle EXCEPT !.isGenerating = TRUE, !.error = null]
    /\ requests' = Issue(Request("generate", "call", ""))
    /\ VehicleFrame

Vehicle_remedyResolved(r, text) ==
    /\ VehicleMounted
    /\ r \in Pending /\ r.slot = "generate"
    /\ vehicle' = [vehicle EXCEPT !.remedyLetter = text, !.isGenerating = FALSE]
    /\ requests' = Settle(r)
    /\ VehicleFrame

Vehicle_remedyRejected(r) ==
    /\ VehicleMounted
    /\ r \in Pending /\ r.slot = "generate"
    /\ vehicle' = [vehicle EXCEPT !.error = Vehicle_RemedyError, !.isGenerating = FALSE]
    /\ requests' = Settle(r)
    /\ VehicleFrame

----------------------------------------------------------------------------
(* DebtCollectorLog (src/unnamed/part_000) *)

Debt_SuggestError == "Could not get AI suggestion. Please try again."
Debt_CeaseError == "Failed to generate Cease & Desist letter."

DebtMounted == activeTab = "Debt Collector Log"
DebtFrame == UNCHANGED <<activeTab, instrument, vehicle, legal, explanation, lastClick, modal>>

\* What the user can put in a field of the form.
DateValues == {"", "2024-05-01"}
CollectorNameValues == {"", "J. Doe"}
CompanyValues == {"", "Acme Recovery"}
DescriptionValues == {"", "called at 3am"}

FieldValues(name) ==
    CASE name = "date" -> DateValues
      [] name = "collectorName" -> CollectorNameValues
      [] name = "company" -> CompanyValues
      [] name = "description" -> DescriptionValues

LogFields == {"date", "collectorName", "company", "description"}

\* setNewLog(prev => ({ ...prev, [name]: value }))
Debt_handleInputChange(name, value) ==
    /\ DebtMounted
    /\ debtLog' = [debtLog EXCEPT !.newLog = [debtLog.newLog EXCEPT ![name] = value]]
    /\ UNCHANGED <<requests, now>>
    /\ UNCHANGED freshDraft
    /\ DebtFrame

\* A click on "Suggest Violation" (disabled={isSuggesting || !newLog.description}).
Debt_handleSuggestViolation ==
    /\ DebtMounted
    /\ debtLog.newLog.description # ""
    /\ ~debtLog.isSuggesting
    /\ debtLog' = [debtLog EXCEPT !.isSuggesting = TRUE, !.error = null,
                                  !.violationSuggestion = ""]
    /\ requests' = Issue(Request("suggest", "call", ""))
    /\ UNCHANGED now
    /\ freshDraft' = FALSE
    /\ DebtFrame

Debt_suggestResolved(r, text) ==
    /\ DebtMounted
    /\ r \in Pending /\ r.slot = "suggest"
    /\ debtLog' = [debtLog EXCEPT !.violationSuggestion = text, !.isSuggesting = FALSE]
    /\ requests' = Settle(r)
    /\ UNCHANGED now
    /\ UNCHANGED freshDraft
    /\ DebtFrame

Debt_suggestRejected(r) ==
    /\ DebtMounted
    /\ r \in Pending /\ r.slot = "suggest"
    /\ debtLog' = [debtLog EXCEPT !.error = Debt_SuggestError, !.isSuggesting = FALSE]
    /\ requests' = Settle(r)
    /\ UNCHANGED now
    /\ UNCHANGED freshDraft
    /\ DebtFrame

\* The entry handleAddLog builds: { id: Date.now(), ...newLog, violationSuggestion },
\* now' being what Date.now() returns to this call.
NewEntry ==
    [id |-> now',
     date |-> debtLog.newLog.date,
     collectorName |-> debtLog.newLog.collectorName,
     company |-> debtLog.newLog.company,
     description |-> debtLog.newLog.description,
     violationSuggestion |-> debtLog.violationSuggestion]

\* Mutant: the handler forgets setViolationSuggestion('').
Debt_handleAddLog_KeepsSuggestion ==
    debtLog' = [debtLog EXCEPT !.logs = Append(debtLog.logs, NewEntry),
                               !.newLog = EmptyNewLog]

\* onSubmit of the form.
Debt_handleAddLog ==
    debtLog' = [debtLog EXCEPT !.logs = Append(debtLog.logs, NewEntry),
                               !.newLog = EmptyNewLog,
                               !.violationSuggestion = ""]

\* The four inputs of the form carry `required`: the browser fires the submit event
\* only when none of them is empty.
FormValid == \A name \in LogFields : debtLog.newLog[name] # ""

\* Mutant: the inputs lose `required`, every click submits.
Debt_submit_NoValidation ==
    /\ DebtMounted
    /\ Len(debtLog.logs) < MaxLogs
    /\ \E t \in now..MaxNow : now' = t
    /\ Debt_handleAddLog
    /\ UNCHANGED requests
    /\ freshDraft' = TRUE
    /\ DebtFrame

\* A click on "Add to Log". The clock does not run backwards: the value the handler
\* reads is the one read last or a later one.
Debt_submit ==
    /\ DebtMounted
    /\ Len(debtLog.logs) < MaxLogs
    /\ IF FormValid
       THEN /\ \E t \in now..MaxNow : now' = t
            /\ Debt_handleAddLog
       ELSE UNCHANGED <<debtLog, now>>
    /\ UNCHANGED requests
    /\ freshDraft' = IF FormValid THEN TRUE ELSE freshDraft
    /\ DebtFrame

\* A click on "Generate Cease & Desist Letter": rendered inside {logs.length > 0 && ...}
\* with disabled={isGenerating}.
Debt_handleGenerateCeaseAndDesist ==
    /\ DebtMounted
    /\ Len(debtLog.logs) > 0
    /\ ~debtLog.isGenerating
    /\ debtLog' = [debtLog EXCEPT !.isGenerating = TRUE, !.error = null]
    /\ requests' = Issue(Request("generate", "call", ""))
    /\ UNCHANGED now
    /\ UNCHANGED freshDraft
    /\ DebtFrame

Debt_ceaseResolved(r, text) ==
    /\ DebtMounted
    /\ r \in Pending /\ r.slot = "generate"
    /\ debtLog' = [debtLog EXCEPT !.ceaseAndDesist = text, !.isGenerating = FALSE]
    /\ requests' = Settle(r)
    /\ UNCHANGED now
    /\ UNCHANGED freshDraft
    /\ DebtFrame

Debt_ceaseRejected(r) ==
    /\ DebtMounted
    /\ r \in Pending /\ r.slot = "generate"
    /\ debtLog' = [debtLog EXCEPT !.error = Debt_CeaseError, !.isGenerating = FALSE]
    /\ requests' = Settle(r)
    /\ UNCHANGED now
    /\ UNCHANGED freshDraft
    /\ DebtFrame

\* logs.map(...).reverse(): the history as rendered.
RECURSIVE Reverse(_)
Reverse(seq) == IF seq = <<>> THEN <<>> ELSE Append(Reverse(Tail(seq)), Head(seq))

RenderedHistory == Reverse(debtLog.logs)

----------------------------------------------------------------------------
(* LegalResources (src/unnamed/part_001, from line 69) *)

initialResources ==
    << [name |-> "UCC Article 3 - Negotiable Instruments",
        url |-> "https://www.law.cornell.edu/ucc/3", category |-> "UCC"],
       [name |-> "UCC Article 9 - Secured Transactions",
        url |-> "https://www.law.cornell.edu/ucc/9", category |-> "UCC"],
       [name |-> "Fair Credit Reporting Act (FCRA) - FTC",
        url |-> "https://www.ftc.gov/legal-library/browse/statutes/fair-credit-reporting-act",
        category |-> "Statutes"],
       [name |-> "Fair Debt Collection Practices Act (FDCPA) - FTC",
        url |-> "https://www.ftc.gov/legal-library/browse/statutes/fair-debt-collection-practices-act",
        category |-> "Statutes"],
       [name |-> "Truth in Lending Act (TILA) - CFPB",
        url |-> "https://www.consumerfinance.gov/rules-policy/regulations/1026/",
        category |-> "Statutes"],
       [name |-> "Black's Law Dictionary 4th Edition",
        url |-> "https://archive.org/details/blackslawdiction00blac",
        category |-> "Reference"] >>

EmptyNewResource == [name |-> "", url |-> "", category |-> ""]

LegalInit == [resources |-> initialResources, searchTerm |-> "", newResource |-> EmptyNewResource]

LegalMounted == activeTab = "Legal Resources"
LegalFrame ==
    UNCHANGED <<activeTab, instrument, vehicle, debtLog, explanation, requests, now, lastClick, modal,
                freshDraft>>

\* String.prototype.toLowerCase, on the characters the resources and queries hold.
UpperLetters == "ABCDEFGHIJKLMNOPQRSTUVWXYZ"
LowerLetters == "abcdefghijklmnopqrstuvwxyz"

LowerOf ==
    [c \in {SubSeq(UpperLetters, i, i) : i \in 1..Len(UpperLetters)} |->
        LET i == CHOOSE k \in 1..Len(UpperLetters) : SubSeq(UpperLetters, k, k) = c
        IN SubSeq(LowerLetters, i, i)]

LowerChar(c) == IF c \in DOMAIN LowerOf THEN LowerOf[c] ELSE c

RECURSIVE LowerFrom(_, _)
LowerFrom(str, i) ==
    IF i > Len(str) THEN ""
    ELSE LowerChar(SubSeq(str, i, i)) \o LowerFrom(str, i + 1)

Prefixes(str) == {SubSeq(str, 1, j) : j \in 1..Len(str)}

\* What the user types in the search box: the leading pieces of every seeded
\* category label, some inner pieces, and some terms that are none of them.
Queries ==
    {"", "nonexistent-xyz", "ucc", "ftc", "Law", "C", "CC", "e", "s", "tat"}
        \cup UNION {Prefixes(initialResources[i].category) : i \in 1..Len(initialResources)}

NewNameValues == {"", "Nolo"}
NewUrlValues == {"", "https://www.nolo.com"}
NewCategoryValues == {"", "UCC", " ", "case law", "constructor"}

\* The strings the catalog can hold: the fields of the resources and the terms.
CatalogStrings ==
    UNION {{initialResources[i].name, initialResources[i].url, initialResources[i].category} :
              i \in 1..Len(initialResources)}
        \cup NewNameValues \cup NewUrlValues \cup NewCategoryValues \cup Queries

\* toLowerCase of each of them, computed once.
LowerCased == [str \in CatalogStrings |-> LowerFrom(str, 1)]

toLowerCase(str) == IF str \in DOMAIN LowerCased THEN LowerCased[str] ELSE LowerFrom(str, 1)

\* String.prototype.includes
includes(str, q) ==
    \E i \in 0..(Len(str) - Len(q)) : SubSeq(str, i + 1, i + Len(q)) = q

\* String.prototype.trim, for the blank the form can hold.
RECURSIVE trim(_)
trim(str) ==
    IF Len(str) = 0 THEN ""
    ELSE IF SubSeq(str, 1, 1) = " " THEN trim(SubSeq(str, 2, Len(str)))
    ELSE IF SubSeq(str, Len(str), Len(str)) = " " THEN trim(SubSeq(str, 1, Len(str) - 1))
    ELSE str

\* Mutant: the filter forgets the category field.
Matches_NoCategory(resource, q) ==
    LET term == toLowerCase(q)
    IN \/ includes(toLowerCase(resource.name), term)
       \/ includes(toLowerCase(resource.url), term)

\* Mutant: the filter compares the fields and the term as typed.
Matches_CaseSensitive(resource, q) ==
    \/ includes(resource.name, q)
    \/ includes(resource.url, q)
    \/ includes(resource.category, q)

\* The predicate of resources.filter(...), for the search term q.
Matches(resource, q) ==
    LET term == toLowerCase(q)
    IN \/ includes(toLowerCase(resource.name), term)
       \/ includes(toLowerCase(resource.url), term)
       \/ includes(toLowerCase(resource.category), term)

Filter(resources, q) == SelectSeq(resources, LAMBDA resource : Matches(resource, q))

filteredResources == Filter(legal.resources, legal.searchTerm)

\* const category = resource.category.trim() || 'Uncategorized'
GroupOf(resource) ==
    IF trim(resource.category) # "" THEN trim(resource.category) ELSE "Uncategorized"

\* The reduce: each key holds, in list order, the filtered resources of its category.
Group(filtered) ==
    LET label == [i \in 1..Len(filtered) |-> GroupOf(filtered[i])]
    IN [category \in {label[i] : i \in 1..Len(filtered)} |->
           LET RECURSIVE Pick(_)
               Pick(i) == IF i > Len(filtered) THEN <<>>
                          ELSE IF label[i] = category THEN <<filtered[i]>> \o Pick(i + 1)
                          ELSE Pick(i + 1)
           IN Pick(1)]

groupedResources == Group(filteredResources)

\* The accumulator of the reduce is the object literal {}: acc[category] of a
\* category that names a property inherited from Object.prototype is that
\* property, not undefined, so (acc[category] = acc[category] || []) is not an
\* array and .push(resource) throws a TypeError while the component renders.
ObjectPrototypeKeys ==
    {"constructor", "toString", "toLocaleString", "valueOf", "hasOwnProperty",
     "isPrototypeOf", "propertyIsEnumerable", "__proto__", "__defineGetter__",
     "__defineSetter__", "__lookupGetter__", "__lookupSetter__"}

\* The reduce throws when it reaches a filtered resource of such a category.
RenderThrows ==
    \E i \in 1..Len(legal.resources) :
        /\ GroupOf(legal.resources[i]) \in ObjectPrototypeKeys
        /\ Matches(legal.resources[i], legal.searchTerm)

\* An error thrown while rendering unmounts the tree: no screen, no tab bar and
\* no handler is left until the page is loaded again.
Crashed == LegalMounted /\ RenderThrows

\* Object.keys(groupedResources).length > 0 ? the groups : the empty-state message
EmptyState(grouped) == Cardinality(DOMAIN grouped) = 0
Headings(grouped) == IF EmptyState(grouped) THEN {} ELSE DOMAIN grouped

RendersEmptyState == ~RenderThrows /\ EmptyState(groupedResources)
RenderedGroups == IF RenderThrows THEN {} ELSE Headings(groupedResources)

\* String.prototype.localeCompare on category labels: the letters compare
\* alphabetically whatever their case, a blank sorts before the letters, and of
\* two labels that differ in case only the one with the lower-case letter is first.
CollationOrder == " abcdefghijklmnopqrstuvwxyz"

CollationRank(c) ==
    IF \E k \in 1..Len(CollationOrder) : SubSeq(CollationOrder, k, k) = c
    THEN CHOOSE k \in 1..Len(CollationOrder) : SubSeq(CollationOrder, k, k) = c
    ELSE 0

RECURSIVE CompareFrom(_, _, _)
CompareFrom(a, b, i) ==
    IF i > Len(a) /\ i > Len(b) THEN 0
    ELSE IF i > Len(a) THEN -1
    ELSE IF i > Len(b) THEN 1
    ELSE LET ra == CollationRank(LowerChar(SubSeq(a, i, i)))
             rb == CollationRank(LowerChar(SubSeq(b, i, i)))
         IN IF ra < rb THEN -1 ELSE IF ra > rb THEN 1 ELSE CompareFrom(a, b, i + 1)

RECURSIVE CaseFrom(_, _, _)
CaseFrom(a, b, i) ==
    IF i > Len(a) THEN 0
    ELSE IF SubSeq(a, i, i) = SubSeq(b, i, i) THEN CaseFrom(a, b, i + 1)
    ELSE IF SubSeq(a, i, i) \in DOMAIN LowerOf THEN 1 ELSE -1

localeCompare(a, b) ==
    LET primary == CompareFrom(a, b, 1)
    IN IF primary # 0 THEN primary ELSE CaseFrom(a, b, 1)

\* Object.entries(groupedResources).sort(([catA], [catB]) => catA.localeCompare(catB))
RECURSIVE SortKeys(_)
SortKeys(keys) ==
    IF keys = {} THEN <<>>
    ELSE LET first == CHOOSE a \in keys : \A b \in keys : localeCompare(a, b) <= 0
         IN <<first>> \o SortKeys(keys \ {first})

\* The headings in the order they are rendered.
RenderedOrder == SortKeys(RenderedGroups)

NewResourceValues(name) ==
    CASE name = "name" -> NewNameValues
      [] name = "url" -> NewUrlValues
      [] name = "category" -> NewCategoryValues

ResourceFields == {"name", "url", "category"}

\* onChange of the search box: setSearchTerm(e.target.value)
Legal_setSearchTerm(q) ==
    /\ LegalMounted /\ ~Crashed
    /\ legal' = [legal EXCEPT !.searchTerm = q]
    /\ LegalFrame

Legal_handleNewResourceChange(name, value) ==
    /\ LegalMounted /\ ~Crashed
    /\ legal' = [legal EXCEPT !.newResource = [legal.newResource EXCEPT ![name] = value]]
    /\ LegalFrame

\* Mutant: the handler appends whatever the form holds.
Legal_handleAddResource_NoCheck ==
    /\ LegalMounted /\ ~Crashed
    /\ Len(legal.resources) < Len(initialResources) + MaxAdded
    /\ legal' = [legal EXCEPT !.resources = Append(legal.resources, legal.newResource),
                              !.newResource = EmptyNewResource]
    /\ LegalFrame

\* onSubmit of the add form.
Legal_handleAddResource ==
    /\ LegalMounted /\ ~Crashed
    /\ Len(legal.resources) < Len(initialResources) + MaxAdded
    /\ legal' =
          IF /\ legal.newResource.name # ""
             /\ legal.newResource.url # ""
             /\ legal.newResource.category # ""
          THEN [legal EXCEPT !.resources = Append(legal.resources, legal.newResource),
                             !.newResource = EmptyNewResource]
          ELSE legal
    /\ LegalFrame

----------------------------------------------------------------------------
(* EndorsementModal (src/unnamed/part_002) *)

NullExplanation == [section |-> null, text |-> "", isLoading |-> FALSE]

\* The content the modal is opened with.
ModalContent ==
    "Endorse under [UCC §3-205] and [UCC §3-104]; perfect the interest under [UCC §9-102]."

\* The pieces the content prop is made of in the model: citation tokens, tokens cut
\* in two, things that look like tokens, and plain text.
Pieces ==
    {"[UCC §3-205]", "[UCC §9-102]", "see ", "[UCC §3-20", "5]", "[UCC §12-345]",
     "[ucc §3-205]", "[UCC §3-2055]", "[", "]"}

RECURSIVE TextsOf(_)
TextsOf(n) ==
    IF n = 0 THEN {""}
    ELSE LET shorter == TextsOf(n - 1)
         IN shorter \cup {text \o piece : text \in shorter, piece \in Pieces}

Texts == TextsOf(MaxPieces)

\* \d
IsDigit(c) == c \in {"0", "1", "2", "3", "4", "5", "6", "7", "8", "9"}

\* The length of what /\[UCC §\d-\d{3}\]/ matches.
TokenLen == 12

\* /\[UCC §\d-\d{3}\]/ matches the text at position i.
TokenAt(text, i) ==
    /\ i + TokenLen - 1 <= Len(text)
    /\ SubSeq(text, i, i + 5) = "[UCC §"
    /\ IsDigit(SubSeq(text, i + 6, i + 6))
    /\ SubSeq(text, i + 7, i + 7) = "-"
    /\ \A k \in 8..10 : IsDigit(SubSeq(text, i + k, i + k))
    /\ SubSeq(text, i + 11, i + 11) = "]"

\* text.split(regex), the regex being one capture group: the pieces between the
\* matches, empty ones too, with every match between them.
RECURSIVE SplitFrom(_, _, _)
SplitFrom(text, i, start) ==
    IF i > Len(text) THEN <<SubSeq(text, start, Len(text))>>
    ELSE IF TokenAt(text, i)
         THEN <<SubSeq(text, start, i - 1), SubSeq(text, i, i + TokenLen - 1)>>
                 \o SplitFrom(text, i + TokenLen, i + TokenLen)
         ELSE SplitFrom(text, i + 1, start)

split(text) == SplitFrom(text, 1, 1)

\* part.match(/\[UCC §(\d-\d{3})\]/): match[1] of the first match in the part,
\* null when there is none.
match(part) ==
    IF \E i \in 1..Len(part) : TokenAt(part, i)
    THEN LET i == CHOOSE k \in 1..Len(part) :
                     TokenAt(part, k) /\ \A j \in 1..(k - 1) : ~TokenAt(part, j)
         IN SubSeq(part, i + 6, i + 10)
    ELSE null

\* section.split('-')[0]
articleOf(section) ==
    IF \E i \in 1..Len(section) : SubSeq(section, i, i) = "-"
    THEN LET i == CHOOSE k \in 1..Len(section) :
                     SubSeq(section, k, k) = "-" /\ \A j \in 1..(k - 1) : SubSeq(section, j, j) # "-"
         IN SubSeq(section, 1, i - 1)
    ELSE section

\* Mutant: the link leaves the article out.
urlOf_SectionOnly(section) == "https://www.law.cornell.edu/ucc/" \o section

\* `https://www.law.cornell.edu/ucc/${article}/${section}`
urlOf(section) == "https://www.law.cornell.edu/ucc/" \o articleOf(section) \o "/" \o section

\* What is rendered for one part: the link of a citation (with its button), or a
\* span holding the part.
renderPart(part) ==
    IF match(part) # null
    THEN [kind |-> "citation", part |-> part, section |-> match(part),
          href |-> urlOf(match(part)), shown |-> "UCC §" \o match(part)]
    ELSE [kind |-> "span", part |-> part, section |-> null, href |-> null, shown |-> part]

\* renderContentWithLinks: nothing for an empty text, else one element per part.
renderContentWithLinks(text) ==
    IF text = "" THEN <<>>
    ELSE LET parts == split(text)
         IN [k \in 1..Len(parts) |-> renderPart(parts[k])]
Modal_FailedText == "Failed to load explanation."

\* match[1] of the citation tokens of the content shown.
Sections == {"3-205", "3-104", "9-102"}

NoClick == [section |-> null, shownBefore |-> FALSE]

\* {explanation?.section === section && ...}: the block under a citation's link.
Displayed(section) == explanation # NullExplanation /\ explanation.section = section

ModalFrame == UNCHANGED <<activeTab, instrument, vehicle, debtLog, legal, now, modal, freshDraft>>

\* A click on "Explain with AI" of a citation.
handleExplainSection(section) ==
    /\ IF explanation # NullExplanation /\ explanation.section = section /\ explanation.text # ""
       THEN /\ explanation' = NullExplanation
            /\ UNCHANGED requests
       ELSE /\ BagCardinality(requests) < MaxInflight
            /\ explanation' = [section |-> section, text |-> "", isLoading |-> TRUE]
            /\ requests' = Issue(Request("explain", "call", section))
    /\ lastClick' = [section |-> section, shownBefore |-> Displayed(section)]
    /\ ModalFrame

\* Mutant: a response is applied only when its citation is the one of the slot.
Modal_explainResolved_Guarded(r, text) ==
    /\ r \in Pending /\ r.slot = "explain"
    /\ explanation' = IF explanation.section = r.arg
                      THEN [section |-> r.arg, text |-> text, isLoading |-> FALSE]
                      ELSE explanation
    /\ requests' = Settle(r)
    /\ UNCHANGED lastClick
    /\ ModalFrame

Modal_explainResolved(r, text) ==
    /\ r \in Pending /\ r.slot = "explain"
    /\ explanation' = [section |-> r.arg, text |-> text, isLoading |-> FALSE]
    /\ requests' = Settle(r)
    /\ UNCHANGED lastClick
    /\ ModalFrame

Modal_explainRejected(r) ==
    /\ r \in Pending /\ r.slot = "explain"
    /\ explanation' = [section |-> r.arg, text |-> Modal_FailedText, isLoading |-> FALSE]
    /\ requests' = Settle(r)
    /\ UNCHANGED lastClick
    /\ ModalFrame

\* The parent passes another content: the modal renders it.
Modal_setContent(text) ==
    /\ modal' = [content |-> text, parts |-> renderContentWithLinks(text)]
    /\ UNCHANGED <<activeTab, instrument, vehicle, debtLog, legal, explanation, requests,
                   now, lastClick, freshDraft>>

\* A click on the link of a citation: it opens the reference, and is a click on
\* another affordance than "Explain with AI".
Modal_clickLink ==
    /\ lastClick # NoClick
    /\ lastClick' = NoClick
    /\ UNCHANGED <<explanation, requests>>
    /\ ModalFrame

----------------------------------------------------------------------------
(* FinanceCockpit (src/unnamed/part_001, to line 68) *)

tabs ==
    <<"Instrument Analysis", "Credit Dispute", "Vehicle Financing",
      "Debt Collector Log", "Legal Resources">>

\* onClick of a tab: renderContent() mounts the screen of the new tab afresh, and
\* the state of the one it replaces is gone; what its calls in flight later set
\* reaches no mounted component. The ids of a log are compared among the entries
\* of one mount only, so the clock is counted from the mount.
setActiveTab(tab) ==
    /\ ~Crashed
    /\ activeTab' = tab
    /\ IF tab = activeTab
       THEN UNCHANGED <<instrument, vehicle, debtLog, legal, requests, now, freshDraft>>
       ELSE /\ freshDraft' = FALSE
            /\ now' = 0
            /\ instrument' = InstrumentInit
            /\ vehicle' = VehicleInit
            /\ debtLog' = DebtLogInit
            /\ legal' = LegalInit
            /\ requests' = EmptyBag
    /\ UNCHANGED <<explanation, lastClick, modal>>

----------------------------------------------------------------------------
(* Specifications *)

Init ==
    /\ activeTab = "Instrument Analysis"
    /\ instrument = InstrumentInit
    /\ vehicle = VehicleInit
    /\ debtLog = DebtLogInit
    /\ legal = LegalInit
    /\ explanation = NullExplanation
    /\ requests = EmptyBag
    /\ now = 0
    /\ lastClick = NoClick
    /\ modal = [content |-> ModalContent, parts |-> renderContentWithLinks(ModalContent)]
    /\ freshDraft = FALSE

Next ==
    \/ \E i \in 1..Len(tabs) : setActiveTab(tabs[i])
    \/ \E sel \in Files \cup {null} : Instrument_handleFileChange(sel)
    \/ Instrument_handleAnalyze
    \/ \E r \in Pending : Instrument_readerOnload(r)
    \/ \E r \in Pending : Instrument_readerOnerror(r)
    \/ \E r \in Pending, text \in AnalysisTexts : Instrument_analyzeResolved(r, text)
    \/ \E r \in Pending : Instrument_analyzeRejected(r)
    \/ \E sel \in Files \cup {null} : Vehicle_handleFileChange(sel)
    \/ Vehicle_handleAnalyze
    \/ \E r \in Pending : Vehicle_fileToGenerativePartResolved(r)
    \/ \E r \in Pending : Vehicle_fileToGenerativePartRejected(r)
    \/ \E r \in Pending, text \in AnalysisTexts : Vehicle_analyzeResolved(r, text)
    \/ \E r \in Pending : Vehicle_analyzeRejected(r)
    \/ Vehicle_handleGenerateRemedy
    \/ \E r \in Pending, text \in LetterTexts : Vehicle_remedyResolved(r, text)
    \/ \E r \in Pending : Vehicle_remedyRejected(r)
    \/ \E name \in LogFields : \E value \in FieldValues(name) : Debt_handleInputChange(name, value)
    \/ Debt_handleSuggestViolation
    \/ \E r \in Pending, text \in SuggestionTexts : Debt_suggestResolved(r, text)
    \/ \E r \in Pending : Debt_suggestRejected(r)
    \/ Debt_submit
    \/ Debt_handleGenerateCeaseAndDesist
    \/ \E r \in Pending, text \in LetterTexts : Debt_ceaseResolved(r, text)
    \/ \E r \in Pending : Debt_ceaseRejected(r)
    \/ \E q \in Queries : Legal_setSearchTerm(q)
    \/ \E name \in ResourceFields : \E value \in NewResourceValues(name) :
          Legal_handleNewResourceChange(name, value)
    \/ Legal_handleAddResource

Spec == Init /\ [][Next]_vars

NextModal ==
    \/ \E section \in Sections : handleExplainSection(section)
    \/ \E r \in Pending, text \in ExplanationTexts : Modal_explainResolved(r, text)
    \/ \E r \in Pending : Modal_explainRejected(r)
    \/ Modal_clickLink

SpecModal == Init /\ [][NextModal]_vars

NextCitations == \E text \in Texts : Modal_setContent(text)

SpecCitations == Init /\ [][NextCitations]_vars

\* The completions of the calls in flight, by action slot.
CompleteAnalyze ==
    \E r \in Pending :
        \/ Instrument_readerOnload(r)
        \/ Instrument_readerOnerror(r)
        \/ Instrument_analyzeRejected(r)
        \/ Vehicle_fileToGenerativePartResolved(r)
        \/ Vehicle_fileToGenerativePartRejected(r)
        \/ Vehicle_analyzeRejected(r)
        \/ \E text \in AnalysisTexts :
              Instrument_analyzeResolved(r, text) \/ Vehicle_analyzeResolved(r, text)

CompleteGenerate ==
    \E r \in Pending :
        \/ Vehicle_remedyRejected(r)
        \/ Debt_ceaseRejected(r)
        \/ \E text \in LetterTexts : Vehicle_remedyResolved(r, text) \/ Debt_ceaseResolved(r, text)

CompleteSuggest ==
    \E r \in Pending :
        \/ Debt_suggestRejected(r)
        \/ \E text \in SuggestionTexts : Debt_suggestResolved(r, text)

\* Every file read ends in onload or onerror, and every call to the service
\* resolves or rejects.
FairSpec ==
    /\ Spec
    /\ WF_vars(CompleteAnalyze)
    /\ WF_vars(CompleteGenerate)
    /\ WF_vars(CompleteSuggest)

----------------------------------------------------------------------------
(* The claims *)

Slots == {"analyze", "generate", "suggest", "explain"}

\* C1: for every action slot there are never two requests in flight at the same
\* time: an action cannot be triggered again while its own request is out.
C1_OneRequestPerSlot == \A slot \in Slots : CountSlot(slot) <= 1

\* C2: when an AI-backed action starts (analyze, generate remedy letter, suggest
\* violation, generate cease-and-desist letter), the state right after the trigger
\* has that action's loading flag true, the error cleared and that action's
\* previous result cleared.
C2_TriggerClearsSlot ==
    [][ /\ Instrument_handleAnalyze =>
              /\ instrument'.isLoading
              /\ instrument'.error = null
              /\ instrument'.analysis = ""
        /\ Vehicle_handleAnalyze =>
              /\ vehicle'.isLoading
              /\ vehicle'.error = null
              /\ vehicle'.analysis = ""
        /\ Vehicle_handleGenerateRemedy =>
              /\ vehicle'.isGenerating
              /\ vehicle'.error = null
              /\ vehicle'.remedyLetter = ""
        /\ Debt_handleSuggestViolation =>
              /\ debtLog'.isSuggesting
              /\ debtLog'.error = null
              /\ debtLog'.violationSuggestion = ""
        /\ Debt_handleGenerateCeaseAndDesist =>
              /\ debtLog'.isGenerating
              /\ debtLog'.error = null
              /\ debtLog'.ceaseAndDesist = ""
      ]_vars

\* C3: when the outbound call of an action fails, the state after the failure holds
\* an error message, the action's loading flag is false, and the action's result
\* slot is empty.
C3_FailureLeavesNoResult ==
    [][ \A r \in Pending :
        /\ (\/ Instrument_readerOnerror(r)
            \/ Instrument_analyzeRejected(r)
            \/ (FileEmpty(r.arg) /\ Instrument_readerOnload(r))) =>
              /\ instrument'.error # null
              /\ ~instrument'.isLoading
              /\ instrument'.analysis = ""
        /\ (Vehicle_fileToGenerativePartRejected(r) \/ Vehicle_analyzeRejected(r)) =>
              /\ vehicle'.error # null
              /\ ~vehicle'.isLoading
              /\ vehicle'.analysis = ""
        /\ Vehicle_remedyRejected(r) =>
              /\ vehicle'.error # null
              /\ ~vehicle'.isGenerating
              /\ vehicle'.remedyLetter = ""
        /\ Debt_suggestRejected(r) =>
              /\ debtLog'.error # null
              /\ ~debtLog'.isSuggesting
              /\ debtLog'.violationSuggestion = ""
        /\ Debt_ceaseRejected(r) =>
              /\ debtLog'.error # null
              /\ ~debtLog'.isGenerating
              /\ debtLog'.ceaseAndDesist = ""
      ]_vars

\* The loading flag of an action slot on the mounted screen.
LoadingFlag(slot) ==
    CASE slot = "analyze" -> instrument.isLoading \/ vehicle.isLoading
      [] slot = "generate" -> vehicle.isGenerating \/ debtLog.isGenerating
      [] slot = "suggest" -> debtLog.isSuggesting
      [] slot = "explain" -> explanation.isLoading

\* C4: every request that is issued eventually ends with its action's loading flag
\* false, whether the call succeeds, the call fails or the file cannot be read; and
\* when the call for an uploaded file succeeds, its one result string is stored and
\* shown and the loading flag is false.
C4_EveryRequestEnds ==
    /\ \A slot \in {"analyze", "generate", "suggest"} :
          (CountSlot(slot) > 0) ~> (CountSlot(slot) = 0 /\ ~LoadingFlag(slot))
    /\ [][ \A r \in Pending, text \in AnalysisTexts :
             /\ Instrument_analyzeResolved(r, text) =>
                   /\ instrument'.analysis = text
                   /\ instrument'.analysis # ""
                   /\ ~instrument'.isLoading
             /\ Vehicle_analyzeResolved(r, text) =>
                   /\ vehicle'.analysis = text
                   /\ vehicle'.analysis # ""
                   /\ ~vehicle'.isLoading
         ]_vars

\* An analysis shown for the uploaded file, with the loading flag false.
C4_Witness ==
    /\ InstrumentMounted
    /\ instrument.file = "scan.jpg"
    /\ instrument.analysis = "analysis-2"
    /\ ~instrument.isLoading
    /\ requests = EmptyBag

\* The allow-list the claim names.
C5_AllowList == {"application/pdf", "image/jpeg", "image/png"}

\* C5: a file whose declared MIME type is not in the allow-list is rejected: the
\* selected file becomes none, the prior result is cleared, an error is set, the
\* upload issues no request and changes no loading flag; and while no file is
\* selected the analyze action issues no request.
C5_DisallowedUploadRejected ==
    [][ /\ \A f \in Files :
             FileType(f) \notin C5_AllowList =>
                /\ Instrument_handleFileChange(f) =>
                      /\ instrument'.file = null
                      /\ instrument'.analysis = ""
                      /\ instrument'.error \notin {null, ""}
                      /\ instrument'.isLoading = instrument.isLoading
                      /\ requests' = requests
                /\ Vehicle_handleFileChange(f) =>
                      /\ vehicle'.file = null
                      /\ vehicle'.analysis = ""
                      /\ vehicle'.remedyLetter = ""
                      /\ vehicle'.error \notin {null, ""}
                      /\ vehicle'.isLoading = vehicle.isLoading
                      /\ vehicle'.isGenerating = vehicle.isGenerating
                      /\ requests' = requests
        /\ (InstrumentMounted /\ instrument.file = null) =>
              CountSlot("analyze")' <= CountSlot("analyze")
        /\ (VehicleMounted /\ vehicle.file = null) =>
              CountSlot("analyze")' <= CountSlot("analyze")
      ]_vars

\* A rejected upload while an analysis was in flight: no file, the error shown,
\* the loading flag as it was.
C5_Witness ==
    /\ InstrumentMounted
    /\ instrument.file = null
    /\ instrument.error = Instrument_UnsupportedError
    /\ instrument.analysis = ""
    /\ instrument.isLoading
    /\ CountSlot("analyze") = 1

\* C6: clicking the explain affordance of the same citation twice, with no click on
\* another affordance in between, leaves no explanation displayed for that citation
\* when none was displayed before the first click, whenever the response arrives.
C6_DoubleToggleRestores ==
    [][ \A section \in Sections :
          (/\ lastClick.section = section
           /\ ~lastClick.shownBefore
           /\ handleExplainSection(section)) => ~Displayed(section)'
      ]_vars

\* C7: submitting the log form with the four required fields populated appends
\* exactly one entry, rendered at the top of the history; with a required field
\* empty nothing is appended and the log is unchanged.
C7_SubmitAppendsOne ==
    [][ (DebtMounted /\ activeTab' = activeTab) =>
          LET draft == debtLog.newLog
              filled == /\ draft.date # ""
                        /\ draft.collectorName # ""
                        /\ draft.company # ""
                        /\ draft.description # ""
          IN /\ ~filled => debtLog'.logs = debtLog.logs
             /\ (filled /\ Debt_submit) =>
                   /\ Len(RenderedHistory') = Len(RenderedHistory) + 1
                   /\ Tail(RenderedHistory') = RenderedHistory
                   /\ Head(RenderedHistory').date = draft.date
                   /\ Head(RenderedHistory').collectorName = draft.collectorName
                   /\ Head(RenderedHistory').company = draft.company
                   /\ Head(RenderedHistory').description = draft.description
      ]_vars

\* Two entries in the history and a draft with a required field still empty.
C7_Witness ==
    /\ DebtMounted
    /\ Len(RenderedHistory) = 2
    /\ debtLog.newLog.description # ""
    /\ debtLog.newLog.date = ""

\* C8: the ids of the entries in the log are pairwise distinct.
C8_UniqueIds ==
    \A i, j \in 1..Len(debtLog.logs) :
        i # j => debtLog.logs[i].id # debtLog.logs[j].id

\* C9: the log is append-only: every operation of the screen leaves the entries
\* already created in place, in order and unchanged; a new entry's suggestion is
\* the draft-level suggestion at the moment of submission, and right after the
\* submission the draft fields and the draft-level suggestion are empty.
C9_AppendOnly ==
    [][ (DebtMounted /\ activeTab' = activeTab) =>
          LET old == debtLog.logs
              new == debtLog'.logs
          IN /\ Len(new) >= Len(old)
             /\ SubSeq(new, 1, Len(old)) = old
             /\ Len(new) # Len(old) =>
                   /\ Len(new) = Len(old) + 1
                   /\ new[Len(new)].violationSuggestion = debtLog.violationSuggestion
                   /\ debtLog'.newLog = [date |-> "", collectorName |-> "",
                                         company |-> "", description |-> ""]
                   /\ debtLog'.violationSuggestion = ""
      ]_vars

\* An entry that froze a suggestion, a later entry without one, and a new draft
\* whose own suggestion has arrived.
C9_Witness ==
    /\ DebtMounted
    /\ Len(debtLog.logs) = 2
    /\ debtLog.logs[1].violationSuggestion = "suggestion-1"
    /\ debtLog.logs[2].violationSuggestion = ""
    /\ debtLog.newLog.description # ""
    /\ debtLog.violationSuggestion = "suggestion-1"

C11_FilterIsSubstringMatch ==
    LegalMounted =>
        \A q \in {toLowerCase(legal.searchTerm)} :
        \A list \in {legal.resources} :
        \A filtered \in {filteredResources} :
        \A hit \in {[i \in 1..Len(list) |->
                       \/ includes(toLowerCase(list[i].name), q)
                       \/ includes(toLowerCase(list[i].url), q)
                       \/ includes(toLowerCase(list[i].category), q)]} :
        \A pos \in {[i \in 0..Len(list) |->
                       Cardinality({k \in 1..i : hit[k]})]} :
            /\ Len(filtered) = pos[Len(list)]
            /\ \A i \in 1..Len(list) : hit[i] => filtered[pos[i]] = list[i]
            /\ (legal.searchTerm = "UCC" /\ list = initialResources) =>
                  /\ filtered = <<initialResources[1], initialResources[2]>>
                  /\ RenderedGroups = {"UCC"}
                  /\ ~RendersEmptyState

\* The term "law" typed in another case than the name "Black's Law Dictionary ..."
\* and the URLs "https://www.law.cornell.edu/..." hold it: three entries, in list
\* order, once a resource has been added at the end of the list.
C11_Witness ==
    /\ LegalMounted
    /\ legal.searchTerm = "Law"
    /\ Len(legal.resources) = Len(initialResources) + 1
    /\ filteredResources = <<initialResources[1], initialResources[2], initialResources[6]>>

\* C12: grouping partitions the filtered resources by category: every filtered
\* resource appears in exactly one rendered group, the group of its category label
\* or "Uncategorized" when it lacks a category; the resources keep their list order
\* inside a group; and the groups are rendered in ascending alphabetical order of
\* category label.
C12_GroupingPartitions ==
    LegalMounted =>
        \A filtered \in {filteredResources} :
        \A grouped \in {groupedResources} :
        \A shown \in {RenderedGroups} :
        \A order \in {RenderedOrder} :
            /\ \A i \in 1..Len(filtered) :
                  /\ GroupOf(filtered[i]) \in shown
                  /\ GroupOf(filtered[i]) =
                        (IF trim(filtered[i].category) = "" THEN "Uncategorized"
                         ELSE trim(filtered[i].category))
            /\ \A category \in shown :
                  grouped[category] =
                      SelectSeq(filtered, LAMBDA resource : GroupOf(resource) = category)
            /\ {order[k] : k \in 1..Len(order)} = shown
            /\ \A k \in 1..(Len(order) - 1) : CompareFrom(order[k], order[k + 1], 1) < 0

\* C13: adding a resource succeeds only when name, URL and category are all
\* non-empty: it then appends exactly that resource at the end of the list, leaves
\* the existing resources and their order unchanged and resets the three form
\* fields to empty; when a field is empty the list and the form fields are left
\* unchanged.
C13_AddAppendsAtEnd ==
    [][ (LegalMounted /\ activeTab' = activeTab) =>
          LET draft == legal.newResource
              filled == draft.name # "" /\ draft.url # "" /\ draft.category # ""
          IN /\ (Legal_handleAddResource /\ filled) =>
                   /\ Len(legal'.resources) = Len(legal.resources) + 1
                   /\ SubSeq(legal'.resources, 1, Len(legal.resources)) = legal.resources
                   /\ legal'.resources[Len(legal'.resources)] = draft
                   /\ legal'.newResource = [name |-> "", url |-> "", category |-> ""]
             /\ (Legal_handleAddResource /\ ~filled) =>
                   /\ legal'.resources = legal.resources
                   /\ legal'.newResource = draft
             /\ legal'.resources # legal.resources => (Legal_handleAddResource /\ filled)
      ]_vars

\* A resource added behind the six seeded ones, the form empty again.
C13_Witness ==
    /\ LegalMounted
    /\ Len(legal.resources) = Len(initialResources) + 1
    /\ SubSeq(legal.resources, 1, Len(initialResources)) = initialResources
    /\ legal.resources[Len(legal.resources)] =
          [name |-> "Nolo", url |-> "https://www.nolo.com", category |-> "case law"]
    /\ legal.newResource = EmptyNewResource

\* The steps of each action of the two screens that hold two actions: its trigger,
\* its completions and its failures.
Vehicle_analyzeStep ==
    \/ Vehicle_handleAnalyze
    \/ \E r \in Pending :
          \/ Vehicle_fileToGenerativePartResolved(r)
          \/ Vehicle_fileToGenerativePartRejected(r)
          \/ Vehicle_analyzeRejected(r)
          \/ \E text \in AnalysisTexts : Vehicle_analyzeResolved(r, text)

Vehicle_generateStep ==
    \/ Vehicle_handleGenerateRemedy
    \/ \E r \in Pending :
          \/ Vehicle_remedyRejected(r)
          \/ \E text \in LetterTexts : Vehicle_remedyResolved(r, text)

Debt_suggestStep ==
    \/ Debt_handleSuggestViolation
    \/ \E r \in Pending :
          \/ Debt_suggestRejected(r)
          \/ \E text \in SuggestionTexts : Debt_suggestResolved(r, text)

Debt_generateStep ==
    \/ Debt_handleGenerateCeaseAndDesist
    \/ \E r \in Pending :
          \/ Debt_ceaseRejected(r)
          \/ \E text \in LetterTexts : Debt_ceaseResolved(r, text)

\* C14: action slots are independent: triggering, completing or failing one action
\* changes only that action's own loading flag, error and result, and never the
\* loading flag, the error or the result of another action of the same screen.
C14_SlotsIndependent ==
    [][ /\ Vehicle_analyzeStep =>
              /\ vehicle'.isGenerating = vehicle.isGenerating
              /\ vehicle'.remedyLetter = vehicle.remedyLetter
              /\ vehicle.error = Vehicle_RemedyError => vehicle'.error = vehicle.error
        /\ Vehicle_generateStep =>
              /\ vehicle'.isLoading = vehicle.isLoading
              /\ vehicle'.analysis = vehicle.analysis
              /\ vehicle.error = Vehicle_AnalyzeError => vehicle'.error = vehicle.error
        /\ Debt_suggestStep =>
              /\ debtLog'.isGenerating = debtLog.isGenerating
              /\ debtLog'.ceaseAndDesist = debtLog.ceaseAndDesist
              /\ debtLog.error = Debt_CeaseError => debtLog'.error = debtLog.error
        /\ Debt_generateStep =>
              /\ debtLog'.isSuggesting = debtLog.isSuggesting
              /\ debtLog'.violationSuggestion = debtLog.violationSuggestion
              /\ debtLog.error = Debt_SuggestError => debtLog'.error = debtLog.error
      ]_vars

RECURSIVE Concat(_)
Concat(parts) == IF parts = <<>> THEN "" ELSE Head(parts).part \o Concat(Tail(parts))

\* C15: citation extraction splits the text into segments whose concatenation, in
\* order, is the text; a segment is rendered as a citation exactly when it is a
\* token [UCC §d-ddd] (one digit, a hyphen, three digits), every other segment is
\* rendered verbatim, and the link of the citation of article a and section a-nnn
\* is https://www.law.cornell.edu/ucc/a/a-nnn.
C15_SegmentsRebuildText ==
    /\ Concat(modal.parts) = modal.content
    /\ \A k \in 1..Len(modal.parts) :
          LET seg == modal.parts[k]
              isToken == /\ Len(seg.part) = 12
                         /\ SubSeq(seg.part, 1, 6) = "[UCC §"
                         /\ \A j \in {7, 9, 10, 11} : IsDigit(SubSeq(seg.part, j, j))
                         /\ SubSeq(seg.part, 8, 8) = "-"
                         /\ SubSeq(seg.part, 12, 12) = "]"
          IN /\ (seg.kind = "citation") <=> isToken
             /\ seg.kind # "citation" => (seg.kind = "span" /\ seg.shown = seg.part)
             /\ seg.kind = "citation" =>
                   seg.href = "https://www.law.cornell.edu/ucc/" \o SubSeq(seg.part, 7, 7)
                                 \o "/" \o SubSeq(seg.part, 7, 11)

\* A token behind a look-alike that is one digit too long: one citation, with its
\* link, the look-alike before it verbatim and an empty segment behind it.
C15_Witness ==
    /\ modal.content = "[UCC §3-2055][UCC §3-205]"
    /\ Len(modal.parts) = 3
    /\ modal.parts[1].kind = "span" /\ modal.parts[1].shown = "[UCC §3-2055]"
    /\ modal.parts[2].kind = "citation"
    /\ modal.parts[2].href = "https://www.law.cornell.edu/ucc/3/3-205"
    /\ modal.parts[3].shown = ""

\* C16: a response is applied to the explanation slot when it arrives, whatever
\* request is the most recent one: after the arrival the slot holds the citation
\* and the text of that response, also when the user has since asked for another
\* citation or has hidden the explanation.
C16_LastArrivalWins ==
    [][ \A r \in Pending :
          /\ \A text \in ExplanationTexts :
                Modal_explainResolved(r, text) =>
                    explanation' = [section |-> r.arg, text |-> text, isLoading |-> FALSE]
          /\ Modal_explainRejected(r) =>
                explanation' = [section |-> r.arg, text |-> "Failed to load explanation.",
                                isLoading |-> FALSE]
      ]_vars

\* Both responses are in, the last click asked for §3-104, and the slot shows the
\* explanation of §3-205, whose request was issued before that click.
C16_Witness ==
    /\ requests = EmptyBag
    /\ lastClick.section = "3-104"
    /\ ~lastClick.shownBefore
    /\ explanation.section = "3-205"
    /\ explanation.text \in ExplanationTexts
    /\ ~explanation.isLoading

\* C17: on the file-analysis screens a non-empty analysis that is displayed was
\* produced from the file that is selected: an analysis is stored only for the
\* selected file, and selecting another file, or none, leaves no analysis displayed.
C17_AnalysisOfSelectedFile ==
    [][ /\ \A r \in Pending, text \in AnalysisTexts :
              /\ Instrument_analyzeResolved(r, text) => instrument'.file = r.arg
              /\ Vehicle_analyzeResolved(r, text) => vehicle'.file = r.arg
        /\ instrument'.file # instrument.file => instrument'.analysis = ""
        /\ vehicle'.file # vehicle.file => vehicle'.analysis = ""
      ]_vars

\* C18: once the toggle has hidden the explanation (the slot is none), no
\* explanation is displayed again until the user next clicks an explain affordance.
C18_HiddenUntilNextClick ==
    [][ (explanation = NullExplanation /\ explanation' # NullExplanation) =>
            \E section \in Sections : handleExplainSection(section)
      ]_vars

\* C19: after a submission has cleared the draft-level suggestion, the suggestion
\* stays empty until the user asks for a suggestion for the new draft; so no entry
\* freezes a suggestion whose request was issued before the previous submission.
C19_SuggestionStaysCleared ==
    [][ /\ (DebtMounted /\ freshDraft /\ freshDraft') => debtLog'.violationSuggestion = ""
        /\ (DebtMounted /\ freshDraft /\ Len(debtLog'.logs) > Len(debtLog.logs)) =>
              debtLog'.logs[Len(debtLog'.logs)].violationSuggestion = ""
      ]_vars

\* C20: switching the active tab changes only which screen is rendered: the log
\* entries already created and the resources already added are still there,
\* unchanged, when the user switches to another tab and back.
C20_TabSwitchKeepsData ==
    [][ \A i \in 1..Len(tabs) :
          setActiveTab(tabs[i]) =>
              /\ debtLog'.logs = debtLog.logs
              /\ legal'.resources = legal.resources
      ]_vars

\* C21: on the instrument analysis screen an error message and a non-empty
\* analysis are never displayed at the same time: a non-empty analysis implies
\* that the error is null.
C21_NoErrorWithAnalysis ==
    InstrumentMounted => (instrument.analysis # "" => instrument.error = null)

====
